---- MODULE Spec2Model ----
(***************************************************************************)
(* A model of pfilter.py: the systematic resampler `resample` and the      *)
(* ParticleFilter class (__init__, init_filter, update).                   *)
(*                                                                         *)
(* Reals are exact rationals.  A weight vector is a record                 *)
(* [num |-> <<n1..nN>>, den |-> d] standing for <<n1/d, .., nN/d>>; den = 0 *)
(* stands for the vector of NaN that numpy's 0/0 division produces.        *)
(* The offset u0 drawn by np.random.random() is a numerator over U0Den,    *)
(* 0 included and U0Den excluded, as the generator's range [0,1).          *)
(* Indices are 0-based as in the source; TLA+ sequences are 1-based, so    *)
(* Python's x[k] is x[k+1] here.                                           *)
(*                                                                         *)
(* The callables the constructor takes are the defaults no_dynamics and    *)
(* no_noise, an identity sensor and a triangular weight kernel that can    *)
(* return negative and zero weights.  The user calls init_filter while     *)
(* setting the filter up; from the first update on it runs only as the     *)
(* last step of update.                                                    *)
(***************************************************************************)
EXTENDS Integers, Sequences, FiniteSets, TLC

\* ---------------------------------------------------------------- bounds
\* longest weight vector handed to a stand-alone resample call
MaxLen == 4
\* common denominator of the normalized weight vectors of those calls
WDen == 10
\* denominator of the random offset u0
U0Den == 20

\* n_particles of the filter under study
NParticles == 2
\* denominator of resample_proportion and of the random numbers compared with it
RDen == 2

\* priors: one distribution per state dimension, given by its support
Priors == << {1, 2}, {3} >>
\* the observations handed to update
ObservedVals == {2, 3}
\* offsets np.random.random() gives inside update: 0, the least above 0, the largest
FilterU0Vals == {0, 1, U0Den - 1}

VARIABLES
  rs,                  \* one stand-alone call of resample: its argument, locals and position
  resample_proportion, \* self.resample_proportion, a numerator over RDen
  particles,           \* self.particles, the N x D ensemble
  hypotheses,          \* self.hypotheses
  weights,             \* self.weights
  mean_hypothesis,     \* self.mean_hypothesis
  mean_state,          \* self.mean_state
  resampled_particles, \* self.resampled_particles, the diversity mask
  last                 \* the last call made on the filter: its name and inputs, and
                       \* the intermediate values of update

vars == <<rs, resample_proportion, particles, hypotheses, weights, mean_hypothesis,
          mean_state, resampled_particles, last>>
filter_vars == <<resample_proportion, particles, hypotheses, weights, mean_hypothesis,
                 mean_state, resampled_particles, last>>

\* ------------------------------------------------------------- arithmetic
RECURSIVE CumSum(_, _)
\* np.sum(weights[:k]) for the numerators
CumSum(num, k) == IF k = 0 THEN 0 ELSE CumSum(num, k - 1) + num[k]

SumSeq(s) == CumSum(s, Len(s))

IsNaN(w) == w.den = 0

\* ---------------------------------------------------------------- resample
\* u > C[j] of line 15, for u = (u0+i)/n and C = [0.] + running sums (line 12).
\* C[0] is the literal 0.; for j >= 1 C[j] is NaN when the weights are NaN and
\* every comparison with NaN is false.  C[j] for j > n does not exist
\* (IndexError in the source, an evaluation error here).
Greater(w, u0, i, j) ==
  IF j = 0 THEN u0 + i * U0Den > 0
  ELSE IF IsNaN(w) THEN FALSE
  ELSE (u0 + i * U0Den) * w.den > CumSum(w.num, j) * Len(w.num) * U0Den

\* the normalized weight vectors of length 1..MaxLen over the denominator WDen
WeightVectors ==
  UNION { { [num |-> s, den |-> WDen] :
              s \in { t \in [1..n -> 0..WDen] : SumSeq(t) = WDen } } : n \in 1..MaxLen }

U0Vals == 0..(U0Den - 1)

RsIdle == [weights |-> [num |-> <<>>, den |-> 1], u0 |-> 0, i |-> 0, j |-> 0,
           indices |-> <<>>, pc |-> "idle"]

\* lines 10-13: n, indices = [], C, u0 drawn, j = 0
RsCall(w, u0) ==
  [weights |-> w, u0 |-> u0, i |-> 0, j |-> 0, indices |-> <<>>, pc |-> "loop"]

\* lines 15-16: one turn of the while loop
RsAdvance ==
  /\ rs.pc = "loop"
  /\ rs.i < Len(rs.weights.num)
  /\ Greater(rs.weights, rs.u0, rs.i, rs.j)
  /\ rs' = [rs EXCEPT !.j = @ + 1]
  /\ UNCHANGED filter_vars

\* line 17 and the step of the for loop to the next u
RsAppend ==
  /\ rs.pc = "loop"
  /\ rs.i < Len(rs.weights.num)
  /\ ~Greater(rs.weights, rs.u0, rs.i, rs.j)
  /\ rs' = [rs EXCEPT !.indices = Append(@, rs.j - 1), !.i = @ + 1]
  /\ UNCHANGED filter_vars

\* line 18
RsReturn ==
  /\ rs.pc = "loop"
  /\ rs.i = Len(rs.weights.num)
  /\ rs' = [rs EXCEPT !.pc = "done"]
  /\ UNCHANGED filter_vars

RECURSIVE Cursor(_, _, _, _)
\* lines 15-16 as a whole: where the while loop leaves j for the i-th sample point
Cursor(w, u0, i, j) == IF Greater(w, u0, i, j) THEN Cursor(w, u0, i, j + 1) ELSE j

RECURSIVE ResampleFrom(_, _, _, _, _)
\* lines 14-18: the for loop from sample point i on, j carried over
ResampleFrom(w, u0, i, j, indices) ==
  IF i = Len(w.num) THEN indices
  ELSE LET j2 == Cursor(w, u0, i, j)
       IN  ResampleFrom(w, u0, i + 1, j2, Append(indices, j2 - 1))

\* resample with the for loop starting at the second sample point
ResampleShort(w, u0) == ResampleFrom(w, u0, 1, 0, <<>>)

\* resample(weights), with the offset u0 that line 13 draws
resample(w, u0) == ResampleFrom(w, u0, 0, 0, <<>>)

\* ------------------------------------------------------------ the filter
D == Len(Priors)

\* np.zeros((n_particles, d)), line 66
Zeros == [i \in 1..NParticles |-> [c \in 1..D |-> 0]]

Unset == <<>>

RECURSIVE ColumnDraws(_)
\* prior.rvs(n_particles) for the first c priors: one vector of N samples each
ColumnDraws(c) ==
  IF c = 0 THEN { <<>> }
  ELSE { Append(d, f) : d \in ColumnDraws(c - 1), f \in [1..NParticles -> Priors[c]] }

\* Draws[c][i] is the i-th sample of prior c
Draws == ColumnDraws(D)

Masks == [1..NParticles -> BOOLEAN]

\* lines 21-22
no_dynamics(x) == x

\* lines 24-25
no_noise(x) == x

\* the sensor model handed to the constructor: the identity sensor
inverse_fn(x) == x

\* the weight kernel handed to the constructor: a triangular similarity on the
\* first state dimension, 2 - |h - observed|, negative for a far hypothesis
weight_fn(hyp, observed) ==
  [i \in 1..Len(hyp) |->
     2 - (IF hyp[i][1] >= observed THEN hyp[i][1] - observed ELSE observed - hyp[i][1])]

\* forcing the weights positive with abs() instead of clipping
ClipAbs(raw) == [i \in 1..Len(raw) |-> IF raw[i] < 0 THEN -raw[i] ELSE raw[i]]

\* np.clip(weights, 0, np.inf), line 91
Clip(raw) == [i \in 1..Len(raw) |-> IF raw[i] < 0 THEN 0 ELSE raw[i]]

\* weights / np.sum(weights), line 92; a zero sum gives 0/0 = NaN in every entry
Normalise(c) == [num |-> c, den |-> SumSeq(c)]

\* numpy's x[k] for a row index k, negative k counting from the end
Row(x, k) == x[(IF k < 0 THEN k + Len(x) ELSE k) + 1]

\* x[indices, :], line 98
Take(x, indices) == [p \in 1..Len(indices) |-> Row(x, indices[p])]

RECURSIVE Dot(_, _, _, _)
\* sum over the first k rows of w.num[i] * x[i][c]
Dot(x, w, c, k) == IF k = 0 THEN 0 ELSE Dot(x, w, c, k - 1) + w.num[k] * x[k][c]

\* np.sum(x.T * weights, axis=-1).T, lines 101-102: one rational per column, over
\* the denominator of the weights (NaN when the weights are NaN)
WeightedSum(x, w) == [num |-> [c \in 1..D |-> Dot(x, w, c, Len(x))], den |-> w.den]

\* init_filter ignoring its mask
RedrawnAll(x, mask, draw) == [i \in 1..Len(x) |-> [c \in 1..D |-> draw[c][i]]]

\* the rows init_filter writes, lines 70-75: without a mask every row, with a
\* mask the rows it marks; row i, column c takes the i-th sample of prior c
Redrawn(x, mask, draw) ==
  [i \in 1..Len(x) |-> IF mask[i] THEN [c \in 1..D |-> draw[c][i]] ELSE x[i]]

AllRows == [i \in 1..NParticles |-> TRUE]

\* the samples that reach the ensemble (rvs(n)[mask]); the others are dropped
Drawn(mask, draw) ==
  [i \in 1..NParticles |-> IF mask[i] THEN [c \in 1..D |-> draw[c][i]] ELSE <<>>]

NoCall == [op |-> "__init__", mask |-> <<>>, drawn |-> <<>>, pre |-> <<>>, raw |-> <<>>,
           indices |-> <<>>, raised |-> "none"]

\* ParticleFilter.__init__, lines 57-66
Constructed(p) ==
  /\ resample_proportion = p
  /\ particles = Zeros
  /\ hypotheses = Unset
  /\ weights = Unset
  /\ mean_hypothesis = Unset
  /\ mean_state = Unset
  /\ resampled_particles = Unset
  /\ last = NoCall

\* update has been called on the filter
Updated == last.op = "update"

\* init_filter(), lines 70-72, called by the user while setting the filter up
InitFilter(draw) ==
  /\ particles' = Redrawn(particles, AllRows, draw)
  /\ last' = [NoCall EXCEPT !.op = "init_filter", !.mask = AllRows,
                            !.drawn = Drawn(AllRows, draw)]
  /\ UNCHANGED <<rs, resample_proportion, hypotheses, weights, mean_hypothesis,
                 mean_state, resampled_particles>>

\* init_filter(mask), lines 73-75, called by the user while setting the filter up
\* (update calls it again at the end of every cycle)
InitFilterMask(mask, draw) ==
  /\ particles' = Redrawn(particles, mask, draw)
  /\ last' = [NoCall EXCEPT !.op = "init_filter_mask", !.mask = mask,
                            !.drawn = Drawn(mask, draw)]
  /\ UNCHANGED <<rs, resample_proportion, hypotheses, weights, mean_hypothesis,
                 mean_state, resampled_particles>>

\* prior samples differing only in rows the mask leaves out are the same input:
\* rvs(n)[mask] drops those rows, so they are fixed to the least value
DrawsFor(mask) ==
  { d \in Draws : \A c \in 1..D, i \in 1..NParticles :
                    ~mask[i] => \A v \in Priors[c] : d[c][i] <= v }

\* the comparison of line 105 with <= for <
RandomMaskLeq(r, p) == [i \in 1..Len(r) |-> r[i] <= p]

\* np.random.random(size=(n_particles,)) < self.resample_proportion, line 105
RandomMask(r, p) == [i \in 1..Len(r) |-> r[i] < p]

\* lines 96-107 of update: resampling, the means and the diversity injection,
\* from the values lines 79-92 computed
Resampled(pre, hyp, raw, w, indices, mask, draw) ==
  LET post == Take(pre, indices)
  IN  /\ hypotheses' = hyp
      /\ weights' = w
      /\ mean_hypothesis' = WeightedSum(hyp, w)
      /\ mean_state' = WeightedSum(post, w)
      /\ resampled_particles' = mask
      /\ particles' = Redrawn(post, mask, draw)
      /\ last' = [op |-> "update", mask |-> mask, drawn |-> Drawn(mask, draw),
                  pre |-> pre, raw |-> raw, indices |-> indices, raised |-> "none"]
      /\ UNCHANGED <<rs, resample_proportion>>

\* lines 87-97 of update: the kernel, clipping, normalisation and resample
Weighted(pre, hyp, raw, u0, mask, draw) ==
  LET w == Normalise(Clip(raw))
  IN  Resampled(pre, hyp, raw, w, resample(w, u0), mask, draw)

\* update(observed), lines 79-107.  u0 is the offset resample draws, r the random
\* numbers of line 105 (numerators over RDen) and draw the samples init_filter
\* takes from the priors.  The call never raises: no line of it tests a value.
Update(observed, u0, r, draw) ==
  LET pre == no_noise(no_dynamics(particles))
      hyp == inverse_fn(pre)
  IN  Weighted(pre, hyp, weight_fn(hyp, observed), u0,
               RandomMask(r, resample_proportion), draw)

\* resample_proportion: 0, the least positive value and 1
Proportions == {0, 1, RDen}

\* random numbers in [0,1) as numerators over RDen: the least and the largest
RandVals == {0, RDen - 1}

Init ==
  /\ rs = RsIdle
  /\ \E p \in Proportions : Constructed(p)

Next ==
  \/ ~Updated /\ \E draw \in Draws : InitFilter(draw)
  \/ ~Updated /\ \E mask \in Masks : \E draw \in DrawsFor(mask) : InitFilterMask(mask, draw)
  \/ \E observed \in ObservedVals, u0 \in FilterU0Vals,
        r \in [1..NParticles -> RandVals] :
        \E draw \in DrawsFor(RandomMask(r, resample_proportion)) :
          Update(observed, u0, r, draw)

Spec == Init /\ [][Next]_vars

\* a call of resample on any normalized weight vector, with any offset, beside a
\* filter that is not used
RsInit ==
  /\ rs \in { RsCall(w, u0) : w \in WeightVectors, u0 \in U0Vals }
  /\ Constructed(0)

RsNext ==
  \/ RsAdvance
  \/ RsAppend
  \/ RsReturn

SpecResample == RsInit /\ [][RsNext]_vars

\* ================================================================ claims
\* ------------------------------------------------ resample (SpecResample)
RsN == Len(rs.weights.num)

\* C[k] < u_i, for C[k] = weights[0]+...+weights[k-1] and u_i = (u0+i)/N
BelowU(k, i) == CumSum(rs.weights.num, k) * RsN * U0Den < (rs.u0 + i * U0Den) * rs.weights.den

\* how often particle k is among the returned indices
Count(k) == Cardinality({ p \in 1..Len(rs.indices) : rs.indices[p] = k })

Concentrated(m) ==
  \A p \in 1..RsN : rs.weights.num[p] = (IF p = m + 1 THEN rs.weights.den ELSE 0)

\* C1: for every normalized weight vector and every offset u0 in [0,1), 0
\* included, resample returns exactly N indices and the i-th one is the bin k in
\* 0..N-1 with C[k] < u_i <= C[k+1]; weights [0.1,0.2,0.3,0.4] with u0 = 0.05
\* give [0,1,2,3].
C1_ResampleBins ==
  rs.pc = "done" =>
    /\ Len(rs.indices) = RsN
    /\ \A i \in 0..(RsN - 1) :
         LET k == rs.indices[i + 1]
         IN  k \in 0..(RsN - 1) /\ BelowU(k, i) /\ ~BelowU(k + 1, i)
    /\ (rs.weights.num = <<1, 2, 3, 4>> /\ rs.weights.den = 10 /\ rs.u0 * 20 = U0Den)
         => rs.indices = <<0, 1, 2, 3>>

\* C2: with all the weight on one particle m, for every offset u0 in [0,1)
\* resample terminates, its cursor j never exceeds N and it returns index m
\* exactly N times and no other index.
C2_ConcentratedWeight ==
  \A m \in 0..(RsN - 1) :
    Concentrated(m) =>
      /\ rs.j <= RsN
      /\ rs.pc = "done" \/ ENABLED RsNext
      /\ rs.pc = "done" => rs.indices = [p \in 1..RsN |-> m]

\* C10: for every normalized weight vector and every offset u0 in [0,1) each
\* particle k is selected floor(N*weights[k]) or ceil(N*weights[k]) times, a
\* particle of weight 0 never, and the index sequence is non-decreasing.
C10_LowVariance ==
  rs.pc = "done" =>
    /\ \A k \in 0..(RsN - 1) :
         LET nw == RsN * rs.weights.num[k + 1]
         IN  /\ Count(k) \in { nw \div rs.weights.den,
                                (nw + rs.weights.den - 1) \div rs.weights.den }
             /\ rs.weights.num[k + 1] = 0 => Count(k) = 0
    /\ \A p \in 1..(Len(rs.indices) - 1) : rs.indices[p] <= rs.indices[p + 1]

\* ------------------------------------------------------- the filter (Spec)
\* the last call was update and every clipped kernel output was zero
Degenerate == last.op = "update" /\ \A i \in 1..NParticles : last.raw[i] <= 0

\* every row of x holds a value of the prior of each column
FromPriors(x) == \A i \in 1..Len(x) : \A c \in 1..D : x[i][c] \in Priors[c]

\* C3: when the clipped kernel outputs sum to zero, update surfaces a
\* DegenerateWeights error instead of completing the cycle: no NaN Weights or
\* means are stored and the Ensemble is not replaced by resampled rows.
C3_DegenerateSurfaced ==
  Degenerate =>
    /\ last.raised = "DegenerateWeights"
    /\ ~IsNaN(weights) /\ ~IsNaN(mean_state) /\ ~IsNaN(mean_hypothesis)
    /\ particles = last.pre

\* C4: after update, Mean State is the Weights-weighted average of the
\* pre-resample Ensemble: mean_state = sum_i Weights[i] * pre_resample_particles[i].
C4_MeanStatePreResample ==
  last.op = "update" => mean_state = WeightedSum(last.pre, weights)

\* C5: the first update on a newly constructed filter works on particles drawn
\* from the priors, never on the placeholder ensemble of the constructor.
C5_PriorsBeforeFirstUpdate ==
  [][(~Updated /\ Updated') => FromPriors(particles)]_vars

\* C6: in every reachable state (after construction, after init_filter with or
\* without a mask, before and after every update) the Ensemble has exactly
\* N = n_particles rows and D = number-of-priors columns.
C6_ParticleCount ==
  /\ Len(particles) = NParticles
  /\ \A i \in 1..Len(particles) : Len(particles[i]) = D

C6_Witness ==
  /\ last.op = "update"
  /\ \E i \in 1..NParticles : last.mask[i]
  /\ \E i, k \in 1..NParticles : i # k /\ last.indices[i] = last.indices[k]

C8_MaskedInitFrame ==
  [][last'.op = "init_filter_mask" =>
       \A i \in 1..NParticles :
         IF last'.mask[i] THEN particles'[i] = last'.drawn[i]
                          ELSE particles'[i] = particles[i]]_vars

C8_Witness ==
  /\ last.op = "init_filter_mask"
  /\ \E i, k \in 1..NParticles :
       /\ last.mask[i] /\ ~last.mask[k]
       /\ particles[i] # particles[k]
       /\ particles[k] # Zeros[k]

\* C9: at the end of update every row i whose resample-mask entry is false is
\* row indices[i] of this cycle's post-dynamics/noise ensemble, only the rows
\* whose entry is true hold values redrawn from the priors; resample_proportion
\* 0 marks no row and resample_proportion 1 marks every row.
C9_DiversityInjection ==
  last.op = "update" =>
    /\ \A i \in 1..NParticles :
         IF resampled_particles[i]
         THEN particles[i] = last.drawn[i]
         ELSE particles[i] = Row(last.pre, last.indices[i])
    /\ resample_proportion = 0 => \A i \in 1..NParticles : ~resampled_particles[i]
    /\ resample_proportion = RDen => \A i \in 1..NParticles : resampled_particles[i]

C9_Witness ==
  /\ last.op = "update"
  /\ \E i, k \in 1..NParticles :
       /\ resampled_particles[i] /\ ~resampled_particles[k]
       /\ particles[k] # last.pre[k]

====
